---- MODULE Spec2Model ----
(***************************************************************************)
(* A model of the lsh-rs bucket stores (in-memory and SQLite), of the      *)
(* hash <-> blob casts of the SQLite store, and of the sparse network of   *)
(* examples/neural-network that is built on the in-memory LSH index.       *)
(*                                                                         *)
(* The specifications share the variables; each one moves only its own     *)
(* group and keeps the others at their idle values:                        *)
(*   Spec      the in-memory MemoryTable driven by store_vec               *)
(*   SpecBlob  hash_to_blob / blob_to_hash                                 *)
(*   SpecSql   the SQLite SqlTable                                         *)
(*   SpecNet   Network::new / forward / update_param / rehash              *)
(*   SpecBackprop  forward / backprop / update_param / rehash              *)
(*   SpecSqlStore  store_vec on a SqlTable that is opened again            *)
(*   SpecDelete    store_vec and delete on a MemoryTable                   *)
(*   SpecArena     MemArena::add                                           *)
(*                                                                         *)
(* f32 values are modelled by small integers; vectors are sequences, so    *)
(* the code's 0-based v[j] is v[j + 1] here.                               *)
(***************************************************************************)
EXTENDS Integers, Sequences, FiniteSets, TLC

VARIABLES
    mt,         \* Spec: the MemoryTable
    st_pos,     \* Spec: the table the running store_vec puts into next
    st_vec,     \* Spec: the vector of the running store_vec
    put_log,    \* Spec: history of the puts made so far
    n_inserts,  \* Spec: number of logical inserts completed
    del_last,   \* SpecDelete: the last delete and what it returned
    bl_pc,      \* SpecBlob: "hash", "blob" or "back"
    bl_hash,    \* SpecBlob: the hash to encode
    bl_blob,    \* SpecBlob: the bytes hash_to_blob gave
    bl_back,    \* SpecBlob: the hash blob_to_hash gave
    bl_endian,  \* SpecBlob: byte order of the target
    sql,        \* SpecSql: the SqlTable (its counter and table names)
    db,         \* SpecSql: the rows of each table of the database file
    sql_last,   \* SpecSql: the last call and what it returned
    sql_calls,  \* SpecSql: number of calls made
    net,        \* SpecNet: the Network
    nn_state,   \* SpecNet: "none", "built" or "panicked"
    nn_cfg,     \* SpecNet: the arguments Network::new was called with
    nn_neur,    \* SpecNet: the neuron lists the last forward returned
    nn_inputs,  \* SpecNet: the input vectors the last forward returned
    nn_last,    \* SpecNet: the last call and how it ended
    nn_clean,   \* SpecNet: rehash returned and no update_param ran since
    nn_ops,     \* SpecNet: number of calls made on the Network
    nn_updates, \* SpecNet: number of update_param calls made
    ar,         \* SpecArena: the MemArena
    ar_last     \* SpecArena: the last add and the slot it returned

memVars == <<mt, st_pos, st_vec, put_log, n_inserts, del_last>>

blobVars == <<bl_pc, bl_hash, bl_blob, bl_back, bl_endian>>

sqlVars == <<sql, db, sql_last, sql_calls>>

arenaVars == <<ar, ar_last>>

netVars ==
    <<net, nn_state, nn_cfg, nn_neur, nn_inputs, nn_last, nn_clean, nn_ops,
      nn_updates, arenaVars>>

vars == <<memVars, blobVars, sqlVars, netVars>>

-----------------------------------------------------------------------------
(* Bounds of the model *)

\* n_hash_tables ranges over 1..MaxTables
MaxTables == 2
\* n_projections ranges over 1..MaxProjections
MaxProjections == 1
\* number of logical inserts a run of Spec makes
MaxInserts == 3
\* length of the vectors stored in Spec
MemDim == 2

\* components of the stored vectors
Vals == {-1, 1}

\* longest hash SpecBlob encodes
MaxHashLen == 2
\* number of calls a run of SpecSql makes
MaxSqlCalls == 3
\* number of calls a run of SpecNet makes on the Network
MaxNetOps == 4
\* number of update_param calls among them
MaxUpdates == 1
\* weights and biases that update_param produces stay in -MaxWeight..MaxWeight
MaxWeight == 2
\* number of delete calls on the MemoryTable
MaxDeletes == 2
\* length of the pool of a MemArena that add is first called on
MaxPool == 2
\* number of add calls on it
MaxAdds == 2

-----------------------------------------------------------------------------
(* Vectors and the sign-random-projection hash *)

RECURSIVE SumTo(_, _)
SumTo(v, n) == IF n = 0 THEN 0 ELSE SumTo(v, n - 1) + v[n]

\* Array1::sum
Sum(v) == SumTo(v, Len(v))

\* aview1(a).dot(&aview1(b)); ndarray panics on a length mismatch, callers
\* check the lengths before they use it
inner_prod(a, b) == Sum([c \in 1..Len(a) |-> a[c] * b[c]])

\* the elements of a vector in the opposite order
Reverse(b) == [i \in 1..Len(b) |-> b[Len(b) + 1 - i]]

\* entry (k, c) of the projection matrix of table t: a fixed matrix per
\* table, as the seeded generator gives one
Projection(t, k, c) == IF ((t + 1) * c + k) % 2 = 0 THEN 1 ELSE -1

\* SignRandomProjections::hash of table t with K projections: the sign of
\* the inner product with each row, zero counting as +1
hash_vec(t, K, v) ==
    [k \in 1..K |->
        IF inner_prod([c \in 1..Len(v) |-> Projection(t, k, c)], v) >= 0
        THEN 1 ELSE -1]

-----------------------------------------------------------------------------
(* MemoryTable (table/mem.rs) *)

\* HashMap::default()
EmptyMap == [h \in {} |-> {}]

\* tbl.entry(hash).or_insert_with(HashSet::default) followed by insert(idx)
BucketInsert(tbl, hash, idx) ==
    [h \in DOMAIN tbl \cup {hash} |->
        IF h = hash
        THEN (IF hash \in DOMAIN tbl THEN tbl[hash] ELSE {}) \cup {idx}
        ELSE tbl[h]]

\* VecStore::push
VecStorePush(map, d) == Append(map, d)

\* MemoryTable::new
MemoryTableNew(n_hash_tables, only_index_storage) ==
    [hash_tables        |-> [t \in 0..(n_hash_tables - 1) |-> EmptyMap],
     n_hash_tables      |-> n_hash_tables,
     vec_store          |-> <<>>,
     only_index_storage |-> only_index_storage,
     counter            |-> 0]

\* the branch of put that stores the vector
PutStoresVec(m, hash_table) == (hash_table = 0) /\ ~m.only_index_storage

\* the branch of put that advances the id counter: the else-if of the one
\* that stores the vector
PutAdvancesCounter(m, hash_table) ==
    ~PutStoresVec(m, hash_table) /\ hash_table = m.n_hash_tables - 1

\* MemoryTable::put: the table after the put and the id it returns
MemPut(m, hash, d, hash_table) ==
    LET idx == m.counter IN
    [table |->
        [m EXCEPT
            !.hash_tables[hash_table] = BucketInsert(@, hash, idx),
            !.vec_store = IF PutStoresVec(m, hash_table)
                          THEN VecStorePush(@, d) ELSE @,
            !.counter = IF PutAdvancesCounter(m, hash_table)
                        THEN @ + 1 ELSE @],
     idx |-> idx]

\* MemoryTable::idx_to_datapoint: VecStore::get, which panics on an index
\* the store does not hold
idx_to_datapoint(m, idx) ==
    IF idx < Len(m.vec_store)
    THEN [ok |-> TRUE, d |-> m.vec_store[idx + 1]]
    ELSE [ok |-> FALSE, panic |-> "index out of bounds"]

\* MemoryTable::query_bucket: NotFound when the hash has no bucket
MemQueryBucket(m, hash, hash_table) ==
    LET tbl == m.hash_tables[hash_table] IN
    IF hash \in DOMAIN tbl
    THEN [ok |-> TRUE, bucket |-> tbl[hash]]
    ELSE [ok |-> FALSE, bucket |-> {}]

\* utils::all_eq: two slices hold the same elements
all_eq(u, v) ==
    /\ Len(u) = Len(v)
    /\ \A c \in 1..Len(u) : u[c] = v[c]

\* VecStore::position: the 0-based index of the first stored vector that is
\* equal to d, None when there is none
VecStorePosition(map, d) ==
    LET hits == {i \in 1..Len(map) : all_eq(map[i], d)} IN
    IF hits = {}
    THEN [some |-> FALSE]
    ELSE [some |-> TRUE,
          idx |-> (CHOOSE i \in hits : \A j \in hits : i <= j) - 1]

\* MemoryTable::delete: the table after the call and what it returns.  A
\* vector the store does not hold ends the call with Ok(()); a hash with
\* no bucket gives NotFound; else the position of the vector is removed
\* from the bucket
MemDelete(m, hash, d, hash_table) ==
    LET pos == VecStorePosition(m.vec_store, d)
        tbl == m.hash_tables[hash_table]
    IN  IF ~pos.some
        THEN [table |-> m, ok |-> TRUE, err |-> "none"]
        ELSE IF hash \notin DOMAIN tbl
        THEN [table |-> m, ok |-> FALSE, err |-> "NotFound"]
        ELSE [table |->
                [m EXCEPT !.hash_tables[hash_table][hash] = @ \ {pos.idx}],
              ok |-> TRUE, err |-> "none"]

-----------------------------------------------------------------------------
(* The LSH index over a MemoryTable: store_vec, query_bucket_ids and       *)
(* update_by_idx of LshMem<SignRandomProjections>                          *)

\* the finite sets and maps of the model
MapInsert(m, key, val) ==
    [x \in DOMAIN m \cup {key} |-> IF x = key THEN val ELSE m[x]]

\* LshMem::new(n_projections, n_hash_tables, dim).srp()
LshNew(n_projections, n_hash_tables, dim, only_index_storage) ==
    [n_projections |-> n_projections,
     dim           |-> dim,
     hash_tables   |-> MemoryTableNew(n_hash_tables, only_index_storage)]

\* the puts of store_vec into the tables t..N-1; idx is the id of the
\* last put made
RECURSIVE StoreVecFrom(_, _, _, _)
StoreVecFrom(lsh, v, t, idx) ==
    IF t >= lsh.hash_tables.n_hash_tables
    THEN [lsh |-> lsh, idx |-> idx]
    ELSE LET r == MemPut(lsh.hash_tables,
                         hash_vec(t, lsh.n_projections, v), v, t)
         IN  StoreVecFrom([lsh EXCEPT !.hash_tables = r.table], v, t + 1, r.idx)

\* store_vec: one put per table in the order 0..N-1, the id of the put
store_vec(lsh, v) == StoreVecFrom(lsh, v, 0, 0)

\* what one table adds to the union of query_bucket_ids: its bucket, and
\* nothing when it answers NotFound
TableCandidates(lsh, v, t) ==
    LET r == MemQueryBucket(lsh.hash_tables,
                            hash_vec(t, lsh.n_projections, v), t)
    IN  IF r.ok THEN r.bucket ELSE {}

\* query_bucket_ids: the union of the buckets of the N tables; NotFound is
\* no error
query_bucket_ids(lsh, v) ==
    [ok  |-> TRUE,
     ids |-> UNION {TableCandidates(lsh, v, t) :
                        t \in 0..(lsh.hash_tables.n_hash_tables - 1)}]

\* bucket.remove(&idx) on the bucket of hash, if the table has one
BucketRemove(tbl, hash, idx) ==
    IF hash \in DOMAIN tbl THEN [tbl EXCEPT ![hash] = @ \ {idx}] ELSE tbl

\* update_by_idx for the tables t..N-1: where the hashes of the old and
\* the new vector differ the id moves from the old bucket to the new one
RECURSIVE UpdateByIdxFrom(_, _, _, _, _)
UpdateByIdxFrom(lsh, idx, new_v, old_v, t) ==
    IF t >= lsh.hash_tables.n_hash_tables THEN lsh
    ELSE LET new_hash == hash_vec(t, lsh.n_projections, new_v)
             old_hash == hash_vec(t, lsh.n_projections, old_v)
             moved == [lsh EXCEPT !.hash_tables.hash_tables[t] =
                          BucketInsert(BucketRemove(@, old_hash, idx),
                                       new_hash, idx)]
         IN  UpdateByIdxFrom(IF new_hash = old_hash THEN lsh ELSE moved,
                             idx, new_v, old_v, t + 1)

update_by_idx(lsh, idx, new_v, old_v) ==
    UpdateByIdxFrom(lsh, idx, new_v, old_v, 0)

-----------------------------------------------------------------------------
(* MemArena (network.rs) *)

\* MemArena::new
MemArenaNew == [pool |-> <<>>, pool_backup |-> <<>>, free |-> <<>>]

\* Vec::insert(idx, p) on a 0-based index: the elements from idx on shift
VecInsert(vec, idx, p) ==
    [n \in 1..(Len(vec) + 1) |->
        IF n < idx + 1 THEN vec[n]
        ELSE IF n = idx + 1 THEN p ELSE vec[n - 1]]

\* MemArena::add: the arena afterwards and the slot returned
MemArenaAdd(arena, p) ==
    IF arena.free # <<>>
    THEN LET idx == arena.free[Len(arena.free)] IN
         [arena |-> [arena EXCEPT
                        !.free = SubSeq(@, 1, Len(@) - 1),
                        !.pool = VecInsert(@, idx, p)],
          idx |-> idx]
    ELSE [arena |-> [arena EXCEPT !.pool = Append(@, p)],
          idx |-> Len(arena.pool)]

\* a freeze that leaves the snapshots as they are
MemArenaFreezeSkipped(arena) == arena

\* MemArena::freeze
MemArenaFreeze(arena) == [arena EXCEPT !.pool_backup = arena.pool]

-----------------------------------------------------------------------------
(* Network (examples/neural-network/src/network.rs). Layer i of the code   *)
(* is element i + 1 of the per-layer sequences.                            *)

\* draw n of the generator seeded with seed, for StandardNormal: the
\* weights are a function of the seed
NormalSample(seed, n) == ((seed + n * n + n \div 2) % 3) - 1

\* Array1::random_using(in_size, StandardNormal, &mut rng) after `drawn`
\* draws; the division by sqrt(in_size) scales by a positive number and is
\* left out of the integer model
RandomWeight(seed, drawn, in_size) ==
    [c \in 1..in_size |-> NormalSample(seed, drawn + c - 1)]

\* the loop over the perceptrons of one layer in Network::new
RECURSIVE InitPerceptrons(_, _, _, _)
InitPerceptrons(st, seed, in_size, left) ==
    IF left = 0 THEN st
    ELSE LET p == RandomWeight(seed, st.drawn, in_size)
             sv == store_vec(st.lsh, p)
             ad == MemArenaAdd(st.pool, p)
         IN  InitPerceptrons(
                [lsh        |-> sv.lsh,
                 pool       |-> ad.arena,
                 lsh2pool_i |-> MapInsert(st.lsh2pool_i, sv.idx, ad.idx),
                 lsh2bias_i |-> MapInsert(st.lsh2bias_i, sv.idx, 0),
                 w_idx      |-> Append(st.w_idx, sv.idx),
                 drawn      |-> st.drawn + in_size],
                seed, in_size, left - 1)

\* the loop over the layers in Network::new, from layer i on
RECURSIVE InitLayers(_, _, _)
InitLayers(b, cfg, i) ==
    IF i >= Len(cfg.dimensions) - 1 THEN b
    ELSE LET in_size == cfg.dimensions[i + 1]
             out_size == cfg.dimensions[i + 2]
             st == InitPerceptrons(
                    [lsh        |-> LshNew(cfg.n_projections, cfg.n_hash_tables,
                                           in_size, cfg.only_index_storage),
                     pool       |-> b.pool,
                     lsh2pool_i |-> EmptyMap,
                     lsh2bias_i |-> EmptyMap,
                     w_idx      |-> <<>>,
                     drawn      |-> b.drawn],
                    cfg.seed, in_size, out_size)
         IN  InitLayers(
                [w         |-> Append(b.w, st.w_idx),
                 lsh2pool  |-> Append(b.lsh2pool, st.lsh2pool_i),
                 lsh2bias  |-> Append(b.lsh2bias, st.lsh2bias_i),
                 lsh_store |-> Append(b.lsh_store, st.lsh),
                 pool      |-> st.pool,
                 drawn     |-> st.drawn],
                cfg, i + 1)

\* Network::new: panics on `n_layers - 1` (or on dimensions[0]) when the
\* dimensions are empty, and checks nothing else of its arguments
NetworkNew(cfg) ==
    IF Len(cfg.dimensions) = 0
    THEN [ok |-> FALSE, panic |-> "attempt to subtract with overflow"]
    ELSE LET b == InitLayers(
                    [w |-> <<>>, lsh2pool |-> <<>>, lsh2bias |-> <<>>,
                     lsh_store |-> <<>>, pool |-> MemArenaNew, drawn |-> 0],
                    cfg, 0)
         IN  [ok |-> TRUE,
              net |-> [w           |-> b.w,
                       lsh2bias    |-> b.lsh2bias,
                       activations |-> cfg.activations,
                       lsh_store   |-> b.lsh_store,
                       n_layers    |-> Len(cfg.dimensions),
                       pool        |-> MemArenaFreeze(b.pool),
                       lsh2pool    |-> b.lsh2pool,
                       dimensions  |-> cfg.dimensions,
                       lr          |-> cfg.lr,
                       loss        |-> cfg.loss]]

\* Activation::activate and Activation::prime
Activate(kind, z) == IF kind = "relu" /\ z < 0 THEN 0 ELSE z

Prime(kind, z) == IF kind = "relu" /\ z <= 0 THEN 0 ELSE 1

\* the elements of a set of numbers as a vector, in one of the two orders
\* the model gives a hash set's iterator
RECURSIVE Ascending(_)
Ascending(S) ==
    IF S = {} THEN <<>>
    ELSE LET m == CHOOSE x \in S : \A y \in S : x <= y
         IN  <<m>> \o Ascending(S \ {m})

IterOrder(S, order) ==
    IF order = "asc" THEN Ascending(S) ELSE Reverse(Ascending(S))

\* get_weight / get_weight_original: the slot of perceptron j of a layer
HasSlot(nw, layer, j) ==
    /\ j \in DOMAIN nw.lsh2pool[layer + 1]
    /\ nw.lsh2pool[layer + 1][j] < Len(nw.pool.pool)

Slot(nw, layer, j) == nw.lsh2pool[layer + 1][j]

get_weight(nw, layer, j) == nw.pool.pool[Slot(nw, layer, j) + 1]

get_weight_original(nw, layer, j) == nw.pool.pool_backup[Slot(nw, layer, j) + 1]

\* the candidates of apply_layer: every pid of the output dimension for
\* the last layer, the ids of the buckets of the input otherwise
Candidates(nw, i, input, last_layer) ==
    IF last_layer
    THEN 0..(nw.dimensions[Len(nw.dimensions)] - 1)
    ELSE query_bucket_ids(nw.lsh_store[i + 1], input).ids

\* what makes apply_layer panic: no activation or index for the layer, an
\* error of the query, a candidate without bias or slot, or a weight of another length than the
\* input; "" when nothing does
ApplyLayerPanic(nw, i, input, last_layer) ==
    IF i >= Len(nw.activations) THEN "activations: index out of bounds"
    ELSE IF ~last_layer /\ i >= Len(nw.lsh_store)
    THEN "lsh_store: index out of bounds"
    ELSE IF ~last_layer /\ ~query_bucket_ids(nw.lsh_store[i + 1], input).ok
    THEN "query_bucket_ids: unwrap on Err"
    ELSE IF i >= Len(nw.lsh2bias) THEN "Could not get bias layer"
    ELSE LET idx_j == Candidates(nw, i, input, last_layer) IN
         IF \E j \in idx_j : j \notin DOMAIN nw.lsh2bias[i + 1]
         THEN "Could not get bias"
         ELSE IF \E j \in idx_j : j \notin DOMAIN nw.lsh2pool[i + 1]
         THEN "lsh2pool: unwrap on None"
         ELSE IF \E j \in idx_j : ~HasSlot(nw, i, j)
         THEN "out of bounds idx"
         ELSE IF \E j \in idx_j : Len(get_weight(nw, i, j)) # Len(input)
         THEN "dot: incompatible shapes"
         ELSE ""

\* apply_layer when it does not panic: one neuron per candidate
apply_layer(nw, i, input, last_layer, order) ==
    LET idx_j == IterOrder(Candidates(nw, i, input, last_layer), order) IN
    [n \in 1..Len(idx_j) |->
        LET j == idx_j[n]
            z == inner_prod(input, get_weight(nw, i, j)) + nw.lsh2bias[i + 1][j]
        IN  [i |-> i, j |-> j, k |-> Slot(nw, i, j), z |-> z,
             a |-> Activate(nw.activations[i + 1], z), delta |-> 0]]

\* make_input_next_layer with the length of the neuron list for the
\* length of the layer
make_input_next_layer_len(prev_neur, layer_size) ==
    [c \in 1..Len(prev_neur) |-> prev_neur[c].a]

\* a make_input_next_layer that packs the activations at the front, in the
\* order of the list
make_input_next_layer_packed(prev_neur, layer_size) ==
    [c \in 1..layer_size |->
        IF c <= Len(prev_neur) THEN prev_neur[c].a ELSE 0]

\* make_input_next_layer: zeros, with the activation of every neuron at
\* its pid
make_input_next_layer(prev_neur, layer_size) ==
    [c \in 1..layer_size |->
        IF \E n \in DOMAIN prev_neur : prev_neur[n].j = c - 1
        THEN LET last == CHOOSE n \in DOMAIN prev_neur :
                            /\ prev_neur[n].j = c - 1
                            /\ \A m \in DOMAIN prev_neur :
                                   prev_neur[m].j = c - 1 => m <= n
             IN  prev_neur[last].a
        ELSE 0]

\* the loop of forward over the layers i..n_layers-2
RECURSIVE ForwardFrom(_, _, _, _, _)
ForwardFrom(nw, i, neur, inputs, order) ==
    IF i >= nw.n_layers - 1
    THEN [ok |-> TRUE, neur |-> neur, inputs |-> inputs, panic |-> "", at |-> i]
    ELSE LET prev_neur == neur[Len(neur)]
             layer_size == nw.dimensions[i + 1]
             last_layer == i = nw.n_layers - 2
         IN  IF \E n \in DOMAIN prev_neur : prev_neur[n].j >= layer_size
             THEN [ok |-> FALSE, neur |-> neur, inputs |-> inputs,
                   panic |-> "make_input_next_layer: index out of bounds",
                   at |-> i]
             ELSE
             LET input == make_input_next_layer(prev_neur, layer_size)
                 why == ApplyLayerPanic(nw, i, input, last_layer)
             IN  IF why # ""
                 THEN [ok |-> FALSE, neur |-> neur,
                       inputs |-> Append(inputs, input),
                       panic |-> why, at |-> i]
                 ELSE ForwardFrom(nw, i + 1,
                        Append(neur, apply_layer(nw, i, input, last_layer, order)),
                        Append(inputs, input), order)

\* Network::forward: the first layer is applied with last_layer = false,
\* then the loop runs for i in 1..n_layers-1
forward(nw, x, order) ==
    LET why == ApplyLayerPanic(nw, 0, x, FALSE) IN
    IF why # ""
    THEN [ok |-> FALSE, neur |-> <<>>, inputs |-> <<x>>, panic |-> why, at |-> 0]
    ELSE ForwardFrom(nw, 1, <<apply_layer(nw, 0, x, FALSE, order)>>, <<x>>, order)

\* Loss::delta of the loss built on the last activation: dL/dz, the
\* derivative of the activation folded in for the squared error
LossDelta(loss, kind, y_true, a) ==
    IF loss = "mse" THEN (a - y_true) * Prime(kind, a) ELSE a - y_true

\* what makes backprop panic: fewer than two layers, fewer neuron lists
\* than layers, no label, activation, weight or weight component for an
\* index it uses; "" when nothing does
BackpropPanic(nw, neur, y_true) ==
    IF nw.n_layers < 2 THEN "attempt to subtract with overflow"
    ELSE IF Len(neur) < nw.n_layers - 1 THEN "index out of bounds"
    ELSE LET out == neur[nw.n_layers - 1] IN
    IF out = <<>> THEN ""
    ELSE IF Len(nw.activations) = 0 THEN "attempt to subtract with overflow"
    ELSE IF \E o \in DOMAIN out : out[o].j >= Len(y_true)
    THEN "index out of bounds"
    ELSE IF \E o \in DOMAIN out : \E l \in 1..(nw.n_layers - 2) :
                ~HasSlot(nw, l, out[o].j)
    THEN "neuron index out of bounds"
    ELSE IF nw.n_layers - 1 > Len(nw.activations) /\ nw.n_layers > 2
    THEN "index out of bounds"
    ELSE IF \E o \in DOMAIN out : \E l \in 1..(nw.n_layers - 2) :
                \E n \in DOMAIN neur[l] :
                    neur[l][n].j >= Len(get_weight(nw, l, out[o].j))
    THEN "ndarray: index out of bounds"
    ELSE ""

\* the traversal of the layers below the output for one output neuron
\* prev_c with delta prev_delta: prev_nodes holds that neuron alone in
\* every iteration of the loop over the layers (new_prev_nodes is filled
\* and never read), so the layer of index l (layer l - 1 of the code) takes
\* the weight of perceptron prev_c.j of layer l and the derivative of
\* activation l at prev_c.z
BackpropChain(nw, prev_layers, prev_delta, prev_c) ==
    [l \in DOMAIN prev_layers |->
        [n \in DOMAIN prev_layers[l] |->
            [prev_layers[l][n] EXCEPT !.delta =
                @ + prev_delta
                    * get_weight(nw, l, prev_c.j)[prev_layers[l][n].j + 1]
                    * Prime(nw.activations[l + 1], prev_c.z)]]]

\* the loop of backprop over the neurons o.. of the last list
RECURSIVE BackpropFrom(_, _, _, _)
BackpropFrom(nw, neur, y_true, o) ==
    LET last == nw.n_layers - 1 IN
    IF o > Len(neur[last]) THEN neur
    ELSE LET c == neur[last][o]
             delta == LossDelta(nw.loss, nw.activations[Len(nw.activations)],
                                y_true[c.j + 1], c.a)
             prev_layers == SubSeq(neur, 1, last - 1)
             chained == BackpropChain(nw, prev_layers, delta, c)
         IN  BackpropFrom(nw,
                [l \in DOMAIN neur |->
                    IF l < last THEN chained[l]
                    ELSE IF l = last
                    THEN [neur[last] EXCEPT ![o].delta = delta]
                    ELSE neur[l]],
                y_true, o + 1)

\* Network::backprop when it does not panic: the neuron lists with their
\* deltas (the loss it returns is a value of Loss::loss and no state)
backprop(nw, neur, y_true) == BackpropFrom(nw, neur, y_true, 1)

\* update_param for the neurons n.. of the list: w <- w - lr * delta * a
\* for the weight of the neuron, b <- b - lr * delta for its bias
RECURSIVE UpdateParamFrom(_, _, _, _)
UpdateParamFrom(nw, input, neur, n) ==
    IF n > Len(neur) THEN nw
    ELSE LET neuron == neur[n]
             slot == Slot(nw, neuron.i, neuron.j)
             dw == [c \in 1..Len(input) |-> input[c] * neuron.delta]
             w == nw.pool.pool[slot + 1]
         IN  UpdateParamFrom(
                [nw EXCEPT
                    !.pool.pool[slot + 1] =
                        [c \in 1..Len(w) |-> w[c] - nw.lr * dw[c]],
                    !.lsh2bias[neuron.i + 1][neuron.j] =
                        @ - nw.lr * neuron.delta],
                input, neur, n + 1)

\* what makes update_param panic: a neuron without slot or bias, or an
\* input of another length than the weight; "" when nothing does
UpdateParamPanic(nw, input, neur) ==
    IF \E n \in DOMAIN neur :
        \/ neur[n].i >= Len(nw.lsh2pool)
        \/ neur[n].j \notin DOMAIN nw.lsh2pool[neur[n].i + 1]
    THEN "perceptron index out of bounds"
    ELSE IF \E n \in DOMAIN neur : ~HasSlot(nw, neur[n].i, neur[n].j)
    THEN "could not get mut perceptron"
    ELSE IF \E n \in DOMAIN neur :
                Len(get_weight(nw, neur[n].i, neur[n].j)) # Len(input)
    THEN "azip: incompatible shapes"
    ELSE IF \E n \in DOMAIN neur :
                neur[n].j \notin DOMAIN nw.lsh2bias[neur[n].i + 1]
    THEN "could not get mut bias"
    ELSE ""

\* an update_param that leaves the delta out of the step: w <- w - lr * a,
\* b <- b - lr
update_param_without_delta(nw, input, neur) ==
    UpdateParamFrom(nw, input,
                    [n \in DOMAIN neur |-> [neur[n] EXCEPT !.delta = 1]], 1)

\* an update_param that also refreshes the snapshots of the arena
update_param_and_freeze(nw, input, neur) ==
    LET u == UpdateParamFrom(nw, input, neur, 1)
    IN  [u EXCEPT !.pool = MemArenaFreeze(u.pool)]

\* Network::update_param when it does not panic
update_param(nw, input, neur) == UpdateParamFrom(nw, input, neur, 1)

\* a set_pool_backup that is one slot off: it refreshes the snapshot of the
\* slot before the perceptron's
set_pool_backup_off_by_one(nw, layer, j) ==
    IF Slot(nw, layer, j) = 0 THEN nw
    ELSE [nw EXCEPT !.pool.pool_backup[Slot(nw, layer, j)] =
                        nw.pool.pool[Slot(nw, layer, j) + 1]]

\* set_pool_backup: pool_backup[slot] = pool[slot].clone()
set_pool_backup(nw, layer, j) ==
    [nw EXCEPT !.pool.pool_backup[Slot(nw, layer, j) + 1] =
                    nw.pool.pool[Slot(nw, layer, j) + 1]]

\* a change detector that compares the weight and its snapshot element by
\* element
VectorsDiffer(nw, layer, j) ==
    get_weight(nw, layer, j) # get_weight_original(nw, layer, j)

\* the change detector of rehash: the sums of the weight and of its
\* snapshot differ
SumsDiffer(nw, layer, j) ==
    Sum(get_weight(nw, layer, j)) # Sum(get_weight_original(nw, layer, j))

\* the body of the loop of rehash over the perceptrons of a layer
RehashPerceptron(nw, layer, j) ==
    IF SumsDiffer(nw, layer, j)
    THEN set_pool_backup(
            [nw EXCEPT !.lsh_store[layer + 1] =
                update_by_idx(@, j, get_weight(nw, layer, j),
                              get_weight_original(nw, layer, j))],
            layer, j)
    ELSE nw

\* rehash from perceptron j of layer `layer` on; get_weight panics on a
\* pid that has no slot
RECURSIVE RehashFrom(_, _, _)
RehashFrom(nw, layer, j) ==
    IF layer >= nw.n_layers - 1 THEN [ok |-> TRUE, net |-> nw, panic |-> ""]
    ELSE IF j >= nw.dimensions[layer + 2] THEN RehashFrom(nw, layer + 1, 0)
    ELSE IF ~HasSlot(nw, layer, j)
    THEN [ok |-> FALSE, net |-> nw, panic |-> "neuron index out of bounds"]
    ELSE RehashFrom(RehashPerceptron(nw, layer, j), layer, j + 1)

\* Network::rehash
rehash(nw) == RehashFrom(nw, 0, 0)

-----------------------------------------------------------------------------
(* hash_to_blob / blob_to_hash (table/sqlite.rs): the slice of i32 seen as  *)
(* its bytes in memory, and back                                           *)

\* std::mem::size_of::<HashPrimitive>() for HashPrimitive = i32
HashPrimitiveSize == 4

\* the bytes of the i32 x in two's complement, least significant first;
\* TLC's integers are 32 bits wide, so the sign bit is split off first
I32Bytes(x) ==
    LET y == IF x < 0 THEN (x + 2147483647) + 1 ELSE x
        top == (y \div 16777216) + (IF x < 0 THEN 128 ELSE 0)
    IN  <<y % 256, (y \div 256) % 256, (y \div 65536) % 256, top>>

\* the i32 whose two's complement bytes, least significant first, are b
I32OfBytes(b) ==
    LET neg == b[4] >= 128
        y == (IF neg THEN b[4] - 128 ELSE b[4]) * 16777216
                + b[3] * 65536 + b[2] * 256 + b[1]
    IN  IF neg THEN (y - 2147483647) - 1 ELSE y

\* the bytes of x as they lie in memory on the target
MemBytes(x, endian) ==
    IF endian = "little" THEN I32Bytes(x) ELSE Reverse(I32Bytes(x))

\* the i32 that the bytes b are in memory on the target
MemI32(b, endian) ==
    IF endian = "little" THEN I32OfBytes(b) ELSE I32OfBytes(Reverse(b))

\* hash_to_blob with the width of a 16-bit HashPrimitive: half the bytes
hash_to_blob_i16(hash, endian) ==
    [i \in 1..(Len(hash) * 2) |->
        MemBytes(hash[((i - 1) \div HashPrimitiveSize) + 1], endian)
            [((i - 1) % HashPrimitiveSize) + 1]]

\* hash_to_blob: from_raw_parts(ptr as *const u8, len * size_of::<i32>())
hash_to_blob(hash, endian) ==
    [i \in 1..(Len(hash) * HashPrimitiveSize) |->
        MemBytes(hash[((i - 1) \div HashPrimitiveSize) + 1], endian)
            [((i - 1) % HashPrimitiveSize) + 1]]

\* blob_to_hash: from_raw_parts(ptr as *const i32, len / size_of::<i32>())
blob_to_hash(blob, endian) ==
    [n \in 1..(Len(blob) \div HashPrimitiveSize) |->
        MemI32([i \in 1..HashPrimitiveSize |->
                    blob[(n - 1) * HashPrimitiveSize + i]], endian)]

-----------------------------------------------------------------------------
(* SqlTable (table/sqlite.rs). A table of the database is the sequence of  *)
(* its rows; a row is [hash |-> blob, id |-> id].                          *)

\* byte order of the machine the store runs on
SqlEndian == "little"

\* number of rows of the table with this hash and id
RowCount(rows, blob, idx) ==
    Cardinality({i \in DOMAIN rows : rows[i] = [hash |-> blob, id |-> idx]})

\* make_table: PRIMARY KEY (hash, id) refuses a second row with the pair
PrimaryKeyViolated(rows, blob, idx) == RowCount(rows, blob, idx) > 0

\* init_table: one empty table per table name
init_table(n_hash_tables) == [t \in 0..(n_hash_tables - 1) |-> <<>>]

\* SqlTable::new and new_in_mem: the counter starts at 0
SqlTableNew(n_hash_tables, only_index_storage) ==
    [n_hash_tables      |-> n_hash_tables,
     only_index_storage |-> only_index_storage,
     counter            |-> 0]

\* get_table_name: TableNotExist for an index that has no name
get_table_name(s, hash_table) ==
    IF hash_table \in 0..(s.n_hash_tables - 1)
    THEN [ok |-> TRUE, name |-> hash_table]
    ELSE [ok |-> FALSE, err |-> "TableNotExist"]

\* insert_table: INSERT INTO table (hash, id). fault is what the database
\* does with the statement: "none" runs it, "SqliteFailure" makes it fail
\* with an sqlite error code that is not the constraint (disk full, I/O
\* error, locked, read-only). The result is what execute() returns and the
\* rows afterwards.
insert_table(rows, hash, idx, fault) ==
    LET blob == hash_to_blob(hash, SqlEndian) IN
    IF fault # "none"
    THEN [r |-> "SqliteFailure", code |-> "Other", rows |-> rows]
    ELSE IF PrimaryKeyViolated(rows, blob, idx)
    THEN [r |-> "SqliteFailure", code |-> "ConstraintViolation", rows |-> rows]
    ELSE [r |-> "Ok", code |-> "None",
          rows |-> Append(rows, [hash |-> blob, id |-> idx])]

\* the match of put with the SqliteFailure arm missing: the failure is
\* handed to the caller
PutResultStrict(r, idx) ==
    IF r = "Ok" THEN [ok |-> TRUE, idx |-> idx, err |-> "None"]
    ELSE [ok |-> FALSE, idx |-> idx, err |-> "Failed"]

\* the match on the insert's result at the end of put: Ok and every
\* SqliteFailure give Ok(idx), any other error panics
PutResult(r, idx) ==
    IF r = "Ok" THEN [ok |-> TRUE, idx |-> idx, err |-> "None"]
    ELSE IF r = "SqliteFailure" THEN [ok |-> TRUE, idx |-> idx, err |-> "None"]
    ELSE [ok |-> FALSE, idx |-> idx, err |-> "panic"]

\* SqlTable::put: the store, the database and the result afterwards
SqlPut(s, rowsOf, hash, hash_table, fault) ==
    LET idx == s.counter
        tn == get_table_name(s, hash_table)
    IN  IF ~tn.ok
        THEN [sql |-> s, db |-> rowsOf,
              res |-> [ok |-> FALSE, idx |-> idx, err |-> tn.err]]
        ELSE
        LET ins == insert_table(rowsOf[tn.name], hash, idx, fault) IN
        [sql |-> [s EXCEPT !.counter =
                    IF hash_table = s.n_hash_tables - 1 THEN @ + 1 ELSE @],
         db  |-> [rowsOf EXCEPT ![tn.name] = ins.rows],
         res |-> PutResult(ins.r, idx)]

\* query_bucket of the module: the ids of the rows WHERE hash = blob
SelectIds(rows, blob) == {rows[i].id : i \in {j \in DOMAIN rows : rows[j].hash = blob}}

\* SqlTable::query_bucket: TableNotExist, Failed on a database error, or
\* the bucket
SqlQueryBucket(s, rowsOf, hash, hash_table, fault) ==
    LET tn == get_table_name(s, hash_table) IN
    IF ~tn.ok THEN [ok |-> FALSE, err |-> tn.err, bucket |-> {}]
    ELSE IF fault # "none" THEN [ok |-> FALSE, err |-> "Failed", bucket |-> {}]
    ELSE [ok |-> TRUE, err |-> "None",
          bucket |-> SelectIds(rowsOf[tn.name], hash_to_blob(hash, SqlEndian))]

-----------------------------------------------------------------------------
(* Idle values of the groups a specification does not move *)

MemIdle ==
    /\ mt = MemoryTableNew(1, TRUE)
    /\ st_pos = 0
    /\ st_vec = <<>>
    /\ put_log = <<>>
    /\ n_inserts = 0
    /\ del_last = [op |-> "none", n |-> 0]

BlobIdle ==
    /\ bl_pc = "idle"
    /\ bl_hash = <<>>
    /\ bl_blob = <<>>
    /\ bl_back = <<>>
    /\ bl_endian = "little"

SqlIdle ==
    /\ sql = SqlTableNew(1, TRUE)
    /\ db = <<>>
    /\ sql_last = [op |-> "none"]
    /\ sql_calls = 0

ArenaIdle ==
    /\ ar = MemArenaNew
    /\ ar_last = [op |-> "none", n |-> 0]

NetIdle ==
    /\ net = [n_layers |-> 0]
    /\ nn_state = "none"
    /\ nn_cfg = [dimensions |-> <<>>]
    /\ nn_neur = <<>>
    /\ nn_inputs = <<>>
    /\ nn_last = [op |-> "none"]
    /\ nn_clean = FALSE
    /\ nn_ops = 0
    /\ nn_updates = 0
    /\ ArenaIdle

-----------------------------------------------------------------------------
(* Spec: store_vec on a MemoryTable, one put per table in table order *)

DataPoints == [1..MemDim -> Vals]

MemInit ==
    /\ \E n \in 1..MaxTables, o \in BOOLEAN : mt = MemoryTableNew(n, o)
    /\ st_pos = 0
    /\ st_vec = <<>>
    /\ put_log = <<>>
    /\ n_inserts = 0
    /\ del_last = [op |-> "none", n |-> 0]

\* the put of store_vec into table st_pos; v is the vector of a store_vec
\* that starts here
PutInto(v) ==
    LET d == IF st_pos = 0 THEN v ELSE st_vec
        r == MemPut(mt, hash_vec(st_pos, MaxProjections, d), d, st_pos)
        last == st_pos = mt.n_hash_tables - 1
    IN  /\ mt' = r.table
        /\ st_vec' = d
        /\ put_log' = Append(put_log,
                [k |-> n_inserts, t |-> st_pos, v |-> d, id |-> r.idx])
        /\ st_pos' = IF last THEN 0 ELSE st_pos + 1
        /\ n_inserts' = IF last THEN n_inserts + 1 ELSE n_inserts
        /\ del_last' = del_last

\* store_vec starts: the put into table 0
StoreVecFirst ==
    /\ st_pos = 0
    /\ n_inserts < MaxInserts
    /\ \E v \in DataPoints : PutInto(v)
    /\ UNCHANGED <<blobVars, sqlVars, netVars>>

\* store_vec goes on: the put into the next table
StoreVecNext ==
    /\ st_pos > 0
    /\ PutInto(st_vec)
    /\ UNCHANGED <<blobVars, sqlVars, netVars>>

Init == MemInit /\ BlobIdle /\ SqlIdle /\ NetIdle

Next == StoreVecFirst \/ StoreVecNext

Spec == Init /\ [][Next]_vars

(* SpecDelete: store_vec and delete on a MemoryTable *)

\* the hashes a caller can hand to delete
DeleteHashes == [1..MaxProjections -> {-1, 1}]

\* MemoryTable::delete of vector d under hash in table t, between two
\* store_vec calls
Delete ==
    /\ st_pos = 0
    /\ del_last.n < MaxDeletes
    /\ \E d \in DataPoints, hash \in DeleteHashes,
          t \in 0..(mt.n_hash_tables - 1) :
        LET r == MemDelete(mt, hash, d, t) IN
        /\ mt' = r.table
        /\ del_last' = [op |-> "delete", n |-> del_last.n + 1,
                        hash |-> hash, d |-> d, t |-> t,
                        ok |-> r.ok, err |-> r.err, before |-> mt,
                        after |-> r.table]
    /\ UNCHANGED <<st_pos, st_vec, put_log, n_inserts>>
    /\ UNCHANGED <<blobVars, sqlVars, netVars>>

NextDelete == StoreVecFirst \/ StoreVecNext \/ Delete

SpecDelete == Init /\ [][NextDelete]_vars

-----------------------------------------------------------------------------
(* SpecBlob: a hash is encoded and the bytes are decoded again *)

\* i32 values the hashes are made of: the extremes, the values of
\* test_blob_hash_casting and values around the byte boundaries
I32Samples ==
    {-2147483647 - 1, -8979875, -200, -2, -1, 0, 1, 2, 255, 256, 687, 1245,
     2147483647}

BlobHashes == UNION {[1..n -> I32Samples] : n \in 0..MaxHashLen}

InitBlob ==
    /\ MemIdle /\ SqlIdle /\ NetIdle
    /\ bl_pc = "hash"
    /\ bl_hash \in BlobHashes
    /\ bl_endian \in {"little", "big"}
    /\ bl_blob = <<>>
    /\ bl_back = <<>>

Encode ==
    /\ bl_pc = "hash"
    /\ bl_blob' = hash_to_blob(bl_hash, bl_endian)
    /\ bl_pc' = "blob"
    /\ UNCHANGED <<bl_hash, bl_back, bl_endian, memVars, sqlVars, netVars>>

Decode ==
    /\ bl_pc = "blob"
    /\ bl_back' = blob_to_hash(bl_blob, bl_endian)
    /\ bl_pc' = "back"
    /\ UNCHANGED <<bl_hash, bl_blob, bl_endian, memVars, sqlVars, netVars>>

NextBlob == Encode \/ Decode

SpecBlob == InitBlob /\ [][NextBlob]_vars

-----------------------------------------------------------------------------
(* SpecSql: puts, queries and re-opening of a SqlTable on one database *)

\* the hashes of test_sql_crud
SqlHashes == {<<1, 2>>, <<2, 3>>}

\* what the database does with a statement
DbFaults == {"none", "SqliteFailure"}

InitSql ==
    /\ MemIdle /\ BlobIdle /\ NetIdle
    /\ \E n \in 1..MaxTables :
        /\ sql = SqlTableNew(n, TRUE)
        /\ db = init_table(n)
    /\ sql_last = [op |-> "none"]
    /\ sql_calls = 0

\* a call of put; hash_table = n_hash_tables is a table that does not exist
SqlPutCall ==
    /\ sql_calls < MaxSqlCalls
    /\ \E hash \in SqlHashes, t \in 0..sql.n_hash_tables, fault \in DbFaults :
        LET r == SqlPut(sql, db, hash, t, fault)
            known == get_table_name(sql, t).ok
            blob == hash_to_blob(hash, SqlEndian)
        IN  /\ sql' = r.sql
            /\ db' = r.db
            /\ sql_last' =
                [op |-> "put", hash |-> hash, t |-> t, fault |-> fault,
                 existed |-> known /\ PrimaryKeyViolated(db[t], blob, sql.counter),
                 inserted |-> known /\ Len(r.db[t]) > Len(db[t]),
                 len_before |-> IF known THEN Len(db[t]) ELSE 0,
                 ok |-> r.res.ok, idx |-> r.res.idx, err |-> r.res.err]
    /\ sql_calls' = sql_calls + 1
    /\ UNCHANGED <<memVars, blobVars, netVars>>

\* a call of query_bucket
SqlQueryCall ==
    /\ \E hash \in SqlHashes, t \in 0..sql.n_hash_tables, fault \in DbFaults :
        LET r == SqlQueryBucket(sql, db, hash, t, fault) IN
        sql_last' = [op |-> "query", hash |-> hash, t |-> t, fault |-> fault,
                     ok |-> r.ok, err |-> r.err, bucket |-> r.bucket]
    /\ UNCHANGED <<sql, db, sql_calls, memVars, blobVars, netVars>>

\* SqlTable::new on the file that holds the tables already: table_exists
\* is true, the rows stay, the counter starts at 0 again
SqlReopen ==
    /\ sql_calls < MaxSqlCalls
    /\ sql' = SqlTableNew(sql.n_hash_tables, sql.only_index_storage)
    /\ sql_last' = [op |-> "new"]
    /\ sql_calls' = sql_calls + 1
    /\ UNCHANGED <<db, memVars, blobVars, netVars>>

NextSql == SqlPutCall \/ SqlQueryCall \/ SqlReopen

SpecSql == InitSql /\ [][NextSql]_vars

-----------------------------------------------------------------------------
(* SpecSqlStore: store_vec on a SqlTable, one put per table in table       *)
(* order, the store being opened again on its file between inserts         *)

InitSqlStore ==
    /\ BlobIdle /\ NetIdle
    /\ mt = MemoryTableNew(1, TRUE)
    /\ st_pos = 0
    /\ st_vec = <<>>
    /\ put_log = <<>>
    /\ n_inserts = 0
    /\ del_last = [op |-> "none", n |-> 0]
    /\ \E n \in 1..MaxTables :
        /\ sql = SqlTableNew(n, TRUE)
        /\ db = init_table(n)
    /\ sql_last = [op |-> "none"]
    /\ sql_calls = 0

\* the put of store_vec into table st_pos of the SqlTable; v is the vector
\* of a store_vec that starts here
SqlPutInto(v) ==
    LET d == IF st_pos = 0 THEN v ELSE st_vec
        hash == hash_vec(st_pos, MaxProjections, d)
        r == SqlPut(sql, db, hash, st_pos, "none")
        last == st_pos = sql.n_hash_tables - 1
    IN  /\ sql' = r.sql
        /\ db' = r.db
        /\ sql_last' = [op |-> "put", hash |-> hash, t |-> st_pos,
                        ok |-> r.res.ok, idx |-> r.res.idx]
        /\ st_vec' = d
        /\ put_log' = Append(put_log,
                [k |-> n_inserts, t |-> st_pos, v |-> d, id |-> r.res.idx])
        /\ st_pos' = IF last THEN 0 ELSE st_pos + 1
        /\ n_inserts' = IF last THEN n_inserts + 1 ELSE n_inserts
        /\ del_last' = del_last

\* store_vec starts: the put into table 0
SqlStoreVecFirst ==
    /\ st_pos = 0
    /\ n_inserts < MaxInserts
    /\ \E v \in DataPoints : SqlPutInto(v)
    /\ UNCHANGED <<mt, sql_calls, blobVars, netVars>>

\* store_vec goes on: the put into the next table
SqlStoreVecNext ==
    /\ st_pos > 0
    /\ SqlPutInto(st_vec)
    /\ UNCHANGED <<mt, sql_calls, blobVars, netVars>>

\* the session ends and SqlTable::new opens the file again: the tables
\* exist, the rows stay, the counter starts at 0
SqlStoreReopen ==
    /\ st_pos = 0
    /\ sql_calls < MaxSqlCalls
    /\ sql' = SqlTableNew(sql.n_hash_tables, sql.only_index_storage)
    /\ sql_last' = [op |-> "new"]
    /\ sql_calls' = sql_calls + 1
    /\ UNCHANGED <<db, mt, st_pos, st_vec, put_log, n_inserts, del_last,
                   blobVars, netVars>>

NextSqlStore == SqlStoreVecFirst \/ SqlStoreVecNext \/ SqlStoreReopen

SpecSqlStore == InitSqlStore /\ [][NextSqlStore]_vars

-----------------------------------------------------------------------------
(* SpecNet: a Network is built, then forward, update_param and rehash are  *)
(* called on it in any order                                               *)

\* the layer dimensions the networks are built with
NetDims == {<<>>, <<2, 2>>, <<2, 2, 2>>}

\* the seed the networks of every shape are built with
NetSeeds == {0}

\* seeds that give the two perceptrons of the first layer the same hash in
\* the first table
CollidingSeeds == {1}

\* n activations
Relus(n) == [k \in 1..n |-> "relu"]

\* arguments of Network::new; only_index_storage is the setting the index
\* of LshMem::new keeps its vectors with
NetConfig(dims, n_acts, N, seed, loss, only_index) ==
    [dimensions |-> dims, activations |-> Relus(n_acts),
     n_projections |-> MaxProjections, n_hash_tables |-> N, lr |-> 1,
     seed |-> seed, loss |-> loss, only_index_storage |-> only_index]

\* the configurations the spec calls valid
ValidConfig(cfg) ==
    /\ Len(cfg.dimensions) > 0
    /\ Len(cfg.activations) = Len(cfg.dimensions) - 1
    /\ cfg.n_projections >= 1
    /\ cfg.n_hash_tables >= 1
    /\ cfg.loss \in {"mse", "nll"}

\* learning rates other than 1 a network is built with
OtherLearningRates == {2}

\* the arguments Network::new is called with: every shape with every
\* number of tables, seed and storage setting, a network whose first layer
\* leaves one bucket of its table missing, and for one shape the other
\* loss, an unknown loss name and a wrong number of activations
NetConfigs ==
    {NetConfig(d, IF d = <<>> THEN 0 ELSE Len(d) - 1, n, sd, "mse", o) :
        d \in NetDims, n \in 1..MaxTables, sd \in NetSeeds, o \in BOOLEAN}
    \cup {NetConfig(<<2, 2, 2>>, 2, 1, sd, "mse", TRUE) : sd \in CollidingSeeds}
    \cup {[NetConfig(<<2, 2>>, 1, 1, 0, "mse", TRUE) EXCEPT !.lr = r] :
                r \in OtherLearningRates}
    \cup {NetConfig(<<2, 2, 2>>, 2, MaxTables, 0, l, TRUE) : l \in {"nll", "hinge"}}
    \cup {NetConfig(<<2, 2, 2>>, a, MaxTables, 0, "mse", TRUE) : a \in {1, 3}}

\* the input vectors of forward for a network
NetInputs(nw) == [1..nw.dimensions[1] -> Vals]

\* the deltas a caller (or backprop) leaves in the neurons
Deltas == {-1, 0, 1}

InRange(nw) ==
    /\ \A n \in DOMAIN nw.pool.pool : \A c \in DOMAIN nw.pool.pool[n] :
            nw.pool.pool[n][c] \in -MaxWeight..MaxWeight
    /\ \A l \in DOMAIN nw.lsh2bias : \A j \in DOMAIN nw.lsh2bias[l] :
            nw.lsh2bias[l][j] \in -MaxWeight..MaxWeight

InitNet == MemIdle /\ BlobIdle /\ SqlIdle /\ NetIdle

\* Network::new
New ==
    /\ nn_state = "none"
    /\ \E cfg \in NetConfigs :
        LET r == NetworkNew(cfg) IN
        /\ nn_cfg' = cfg
        /\ nn_state' = IF r.ok THEN "built" ELSE "panicked"
        /\ net' = IF r.ok THEN r.net ELSE net
        /\ nn_last' = [op |-> "new", ok |-> r.ok]
    /\ UNCHANGED <<nn_neur, nn_inputs, nn_clean, nn_ops, nn_updates, memVars, arenaVars,
                   blobVars, sqlVars>>

\* Network::forward
Forward ==
    /\ nn_state = "built"
    /\ nn_ops < MaxNetOps
    /\ \E x \in NetInputs(net), order \in {"asc", "desc"} :
        LET r == forward(net, x, order) IN
        /\ nn_state' = IF r.ok THEN "built" ELSE "panicked"
        /\ nn_neur' = IF r.ok THEN r.neur ELSE <<>>
        /\ nn_inputs' = IF r.ok THEN r.inputs ELSE <<>>
        /\ nn_last' = [op |-> "forward", ok |-> r.ok, panic |-> r.panic,
                       at |-> r.at, neur |-> r.neur, inputs |-> r.inputs,
                       x |-> x]
    /\ nn_ops' = nn_ops + 1
    /\ UNCHANGED <<net, nn_cfg, nn_clean, nn_updates, memVars, arenaVars, blobVars, sqlVars>>

\* Network::update_param with the input and the neurons of layer i of the
\* last forward, the deltas being what the caller left in them
UpdateParam ==
    /\ nn_state = "built"
    /\ nn_ops < MaxNetOps
    /\ nn_updates < MaxUpdates
    /\ \E l \in DOMAIN nn_neur : \E D \in [DOMAIN nn_neur[l] -> Deltas] :
        LET neur == [n \in DOMAIN nn_neur[l] |->
                        [nn_neur[l][n] EXCEPT !.delta = D[n]]]
            why == UpdateParamPanic(net, nn_inputs[l], neur)
            nw == update_param(net, nn_inputs[l], neur)
        IN  /\ why = "" => InRange(nw)
            /\ nn_state' = IF why = "" THEN "built" ELSE "panicked"
            /\ net' = IF why = "" THEN nw ELSE net
            /\ nn_last' = [op |-> "update_param", ok |-> why = "",
                           layer |-> l - 1, neur |-> neur]
    /\ nn_clean' = FALSE
    /\ nn_ops' = nn_ops + 1
    /\ nn_updates' = nn_updates + 1
    /\ UNCHANGED <<nn_cfg, nn_neur, nn_inputs, memVars, arenaVars, blobVars, sqlVars>>

\* Network::rehash
Rehash ==
    /\ nn_state = "built"
    /\ nn_ops < MaxNetOps
    /\ LET r == rehash(net) IN
        /\ nn_state' = IF r.ok THEN "built" ELSE "panicked"
        /\ net' = IF r.ok THEN r.net ELSE net
        /\ nn_clean' = r.ok
        /\ nn_last' = [op |-> "rehash", ok |-> r.ok, clean |-> nn_clean,
                       changed |-> r.ok /\ r.net # net]
    /\ nn_ops' = nn_ops + 1
    /\ UNCHANGED <<nn_cfg, nn_neur, nn_inputs, nn_updates, memVars, arenaVars, blobVars,
                   sqlVars>>

NextNet == New \/ Forward \/ UpdateParam \/ Rehash

SpecNet == InitNet /\ [][NextNet]_vars

-----------------------------------------------------------------------------
(* SpecBackprop: networks of one and two hidden layers after construction, *)
(* with forward, backprop, update_param and rehash called in any order     *)

\* the layer dimensions of the networks backprop runs on
BackpropDims == {<<2, 2, 2>>, <<2, 2, 2, 2>>}

\* the activation kinds of the networks backprop runs on
ActivationKinds == {"relu", "linear"}

\* the configurations of the networks backprop runs on
BackpropConfigs ==
    {[NetConfig(d, Len(d) - 1, MaxTables, 0, l, TRUE) EXCEPT
            !.activations = [k \in 1..(Len(d) - 1) |-> kind]] :
        d \in BackpropDims, l \in {"mse", "nll"}, kind \in ActivationKinds}

\* the labels y_true of backprop
Labels == {0, 1}

InitBackprop ==
    /\ MemIdle /\ BlobIdle /\ SqlIdle
    /\ \E cfg \in BackpropConfigs :
        /\ nn_cfg = cfg
        /\ net = NetworkNew(cfg).net
    /\ nn_state = "built"
    /\ nn_neur = <<>>
    /\ nn_inputs = <<>>
    /\ nn_last = [op |-> "new", ok |-> TRUE]
    /\ nn_clean = FALSE
    /\ nn_ops = 0
    /\ nn_updates = 0
    /\ ArenaIdle

\* Network::backprop on the neuron lists of the last forward
Backprop ==
    /\ nn_state = "built"
    /\ nn_ops < MaxNetOps
    /\ nn_neur # <<>>
    /\ \E y_true \in [1..net.dimensions[net.n_layers] -> Labels] :
        LET why == BackpropPanic(net, nn_neur, y_true) IN
        /\ nn_state' = IF why = "" THEN "built" ELSE "panicked"
        /\ nn_neur' = IF why = "" THEN backprop(net, nn_neur, y_true)
                      ELSE nn_neur
        /\ nn_last' = [op |-> "backprop", ok |-> why = "", y_true |-> y_true,
                       before |-> nn_neur]
    /\ nn_ops' = nn_ops + 1
    /\ UNCHANGED <<net, nn_cfg, nn_inputs, nn_clean, nn_updates, memVars, arenaVars,
                   blobVars, sqlVars>>

\* Network::update_param with the neurons and the input of layer i of the
\* last forward, as backprop left them
UpdateParamAfterBackprop ==
    /\ nn_state = "built"
    /\ nn_ops < MaxNetOps
    /\ nn_updates < MaxUpdates
    /\ \E l \in DOMAIN nn_neur :
        LET why == UpdateParamPanic(net, nn_inputs[l], nn_neur[l])
            nw == update_param(net, nn_inputs[l], nn_neur[l])
        IN  /\ why = "" => InRange(nw)
            /\ nn_state' = IF why = "" THEN "built" ELSE "panicked"
            /\ net' = IF why = "" THEN nw ELSE net
            /\ nn_last' = [op |-> "update_param", ok |-> why = "",
                           layer |-> l - 1, neur |-> nn_neur[l]]
    /\ nn_clean' = FALSE
    /\ nn_ops' = nn_ops + 1
    /\ nn_updates' = nn_updates + 1
    /\ UNCHANGED <<nn_cfg, nn_neur, nn_inputs, memVars, arenaVars, blobVars, sqlVars>>

NextBackprop == Forward \/ Backprop \/ UpdateParamAfterBackprop \/ Rehash

SpecBackprop == InitBackprop /\ [][NextBackprop]_vars

(* SpecArena: MemArena::add, called on an arena some of whose slots have   *)
(* been put on the free-list                                               *)

\* the weight vectors handed to add
ArenaWeights == [1..MemDim -> Vals]

\* the pools of at most MaxPool weights
ArenaPools == UNION {[1..n -> ArenaWeights] : n \in 0..MaxPool}

\* the free-lists over a pool of n slots: freed slots of the pool, each
\* one once
FreeLists(n) ==
    UNION {{f \in [1..k -> 0..(n - 1)] :
                \A i, j \in 1..k : f[i] = f[j] => i = j} : k \in 0..n}

\* the arenas add is called on
ArenaInputs ==
    {a \in [pool : ArenaPools, pool_backup : {<<>>},
            free : FreeLists(MaxPool)] :
        \A i \in 1..Len(a.free) : a.free[i] < Len(a.pool)}

InitArena ==
    /\ MemIdle /\ BlobIdle /\ SqlIdle
    /\ net = [n_layers |-> 0]
    /\ nn_state = "none"
    /\ nn_cfg = [dimensions |-> <<>>]
    /\ nn_neur = <<>>
    /\ nn_inputs = <<>>
    /\ nn_last = [op |-> "none"]
    /\ nn_clean = FALSE
    /\ nn_ops = 0
    /\ nn_updates = 0
    /\ ar \in ArenaInputs
    /\ ar_last = [op |-> "none", n |-> 0]

\* MemArena::add
Add ==
    /\ ar_last.n < MaxAdds
    /\ \E p \in ArenaWeights :
        LET r == MemArenaAdd(ar, p) IN
        /\ ar' = r.arena
        /\ ar_last' = [op |-> "add", n |-> ar_last.n + 1, p |-> p,
                       idx |-> r.idx, before |-> ar]
    /\ UNCHANGED <<net, nn_state, nn_cfg, nn_neur, nn_inputs, nn_last,
                   nn_clean, nn_ops, nn_updates>>
    /\ UNCHANGED <<memVars, blobVars, sqlVars>>

NextArena == Add

SpecArena == InitArena /\ [][NextArena]_vars

-----------------------------------------------------------------------------
(* Claims about the in-memory store *)

\* the buckets of table t that hold id
BucketsOf(m, t, id) ==
    {h \in DOMAIN m.hash_tables[t] : id \in m.hash_tables[t][h]}

\* C1: the k-th logical insert (from 0) gets id k from the put of every
\* table, and once it is complete the id counter equals the number of
\* logical inserts made, for every N >= 1 and both settings of
\* only_index_storage.
C1_IdsDenseFromZero ==
    /\ \A i \in DOMAIN put_log : put_log[i].id = put_log[i].k
    /\ (st_pos = 0 => mt.counter = n_inserts)

\* C2: between store_vec calls every id that was assigned is, in each
\* table t, in exactly one bucket: the one keyed by table t's hash of the
\* vector inserted under that id.
C2_OneBucketPerTable ==
    st_pos = 0 =>
        \A i \in DOMAIN put_log : \A t \in 0..(mt.n_hash_tables - 1) :
            BucketsOf(mt, t, put_log[i].id)
                = {hash_vec(t, MaxProjections, put_log[i].v)}

-----------------------------------------------------------------------------
(* Claims about the hash <-> blob casts *)

\* C10: the blob of a hash has 4 bytes per component, and decoding it
\* gives the hash back, for hashes of every length.
C10_BlobRoundTrip ==
    /\ (bl_pc \in {"blob", "back"} => Len(bl_blob) = 4 * Len(bl_hash))
    /\ (bl_pc = "back" => bl_back = bl_hash)

\* a hash of two components, one of them negative, went through both casts
C10_Witness ==
    /\ bl_pc = "back"
    /\ Len(bl_hash) = 2
    /\ bl_hash[1] < 0
    /\ bl_blob[4] >= 128

-----------------------------------------------------------------------------
(* Claims about the SQLite store *)

\* C8: a put whose (hash, id) pair is already a row of the target table
\* reports success and leaves the table as it was: the pair is still one
\* row, and a query for the hash returns the id.
C8_DuplicatePutIsNoOp ==
    (sql_last.op = "put" /\ sql_last.existed) =>
        LET rows == db[sql_last.t]
            blob == hash_to_blob(sql_last.hash, SqlEndian)
        IN  /\ sql_last.ok
            /\ Len(rows) = sql_last.len_before
            /\ RowCount(rows, blob, sql_last.idx) = 1
            /\ SqlQueryBucket(sql, db, sql_last.hash, sql_last.t, "none").ok
            /\ sql_last.idx \in
                SqlQueryBucket(sql, db, sql_last.hash, sql_last.t, "none").bucket

\* a put met its own pair in the table while the database was healthy
C8_Witness ==
    /\ sql_last.op = "put"
    /\ sql_last.existed
    /\ sql_last.fault = "none"
    /\ sql_last.ok

\* C9: put reports success only when the row was inserted or the insert
\* violated the unique (hash, id) constraint; any other failure of the
\* database is not reported as success.
C9_OtherFailuresSurfaced ==
    (sql_last.op = "put" /\ sql_last.ok) =>
        \/ sql_last.inserted
        \/ (sql_last.fault = "none" /\ sql_last.existed)

-----------------------------------------------------------------------------
(* Claims about the network *)

\* the all-zero vector of length n
Zeros(n) == [c \in 1..n |-> 0]

\* C3: for every network with at least two layers the last neuron list
\* that forward returns holds exactly the pids 0..d_{L-1}-1, each once.
C3_LastLayerDense ==
    (nn_last.op = "forward" /\ nn_last.ok /\ net.n_layers >= 2) =>
        LET last == nn_neur[Len(nn_neur)]
            d == net.dimensions[net.n_layers]
        IN  /\ Len(last) = d
            /\ {last[n].j : n \in DOMAIN last} = 0..(d - 1)

\* C4: after rehash returns, for every perceptron j of every layer the
\* snapshot of its slot equals its weight and every table of the index
\* holds j in the bucket keyed by the hash of its weight.
C4_RehashReconciles ==
    (nn_last.op = "rehash" /\ nn_last.ok) =>
        \A layer \in 0..(net.n_layers - 2) :
            \A j \in 0..(net.dimensions[layer + 2] - 1) :
                /\ get_weight_original(net, layer, j) = get_weight(net, layer, j)
                /\ \A t \in 0..(net.lsh_store[layer + 1].hash_tables.n_hash_tables - 1) :
                    j \in TableCandidates(net.lsh_store[layer + 1],
                                          get_weight(net, layer, j), t)

\* C5: a rehash that follows a rehash with no update_param in between
\* changes no bucket of any index and no entry of pool_backup.
C5_RehashIdempotent ==
    [][(nn_clean /\ nn_last'.op = "rehash" /\ nn_ops' # nn_ops) =>
            /\ net'.lsh_store = net.lsh_store
            /\ net'.pool.pool_backup = net.pool.pool_backup]_vars

\* a second rehash returned after a first one that had refreshed the
\* snapshot of a weight changed by update_param
C5_Witness ==
    /\ nn_last.op = "rehash"
    /\ nn_last.ok
    /\ nn_last.clean
    /\ nn_updates > 0
    /\ net.pool.pool_backup # NetworkNew(nn_cfg).net.pool.pool_backup

\* C6: Network::new with an invalid configuration (no dimensions, a number
\* of activations other than dimensions - 1, K or N zero, a loss name
\* other than "mse" and "nll") returns no Network.
C6_InvalidConfigRejected ==
    (nn_last.op = "new" /\ nn_last.ok) => ValidConfig(nn_cfg)

\* the layers of the last forward that were gated by the index and got no
\* candidate from any table
EmptyGatedLayers ==
    {i \in 0..(Len(nn_last.neur) - 1) :
        /\ (i = 0 \/ i < net.n_layers - 2)
        /\ Candidates(net, i, nn_last.inputs[i + 1], FALSE) = {}}

\* C7: a hash without bucket is no failure of forward: the query is no
\* error, the layer's neuron list is empty, and the input built for the
\* next layer is the all-zero vector of that layer's length.
C7_EmptyBucketNoFailure ==
    nn_last.op = "forward" =>
        /\ nn_last.panic # "query_bucket_ids: unwrap on Err"
        /\ \A i \in EmptyGatedLayers :
            /\ nn_last.neur[i + 1] = <<>>
            /\ (i + 2 <= Len(nn_last.inputs) =>
                    nn_last.inputs[i + 2] = Zeros(net.dimensions[i + 2]))

\* forward returned for a network of three layers whose first layer got
\* no candidate, with the zero vector as the input of the second layer
C7_Witness ==
    /\ nn_last.op = "forward"
    /\ nn_last.ok
    /\ net.n_layers = 3
    /\ 0 \in EmptyGatedLayers
    /\ Len(nn_inputs) = 2
    /\ nn_inputs[2] = <<0, 0>>

\* the step taken is a call of update_param that returned
UpdateParamReturned ==
    /\ nn_ops' # nn_ops
    /\ nn_last'.op = "update_param"
    /\ nn_last'.ok

\* C11: update_param with delta = 0 in every neuron of its list leaves
\* every weight vector and every bias as it was, for every input and
\* learning rate.
C11_ZeroDeltaChangesNothing ==
    [][(/\ UpdateParamReturned
        /\ \A n \in DOMAIN nn_last'.neur : nn_last'.neur[n].delta = 0) =>
            /\ net'.pool.pool = net.pool.pool
            /\ net'.lsh2bias = net.lsh2bias]_vars

\* update_param returned for a non-empty list of neurons with delta 0 and
\* a learning rate other than 1
C11_Witness ==
    /\ nn_last.op = "update_param"
    /\ nn_last.ok
    /\ nn_last.neur # <<>>
    /\ \A n \in DOMAIN nn_last.neur : nn_last.neur[n].delta = 0
    /\ net.lr \in OtherLearningRates

\* the buckets of table t of the index of a layer that hold pid
IndexBucketsOf(nw, layer, t, pid) ==
    BucketsOf(nw.lsh_store[layer + 1].hash_tables, t, pid)

\* C12: in every state reached from construction, for every layer, every
\* perceptron and every table t, the perceptron is a member of exactly the
\* bucket keyed by hash_t of the snapshot of its weight.
C12_SnapshotIsIndexedVector ==
    nn_state = "built" =>
        \A layer \in 0..(net.n_layers - 2) :
            \A n \in DOMAIN net.w[layer + 1] :
                LET pid == net.w[layer + 1][n]
                    lsh == net.lsh_store[layer + 1]
                IN  \A t \in 0..(lsh.hash_tables.n_hash_tables - 1) :
                        IndexBucketsOf(net, layer, t, pid) =
                            {hash_vec(t, lsh.n_projections,
                                      get_weight_original(net, layer, pid))}

\* the step taken is a call of rehash that returned
RehashReturned ==
    /\ nn_ops' # nn_ops
    /\ nn_last'.op = "rehash"
    /\ nn_last'.ok

\* C13: after rehash, a perceptron whose weight and snapshot had different
\* element sums has its snapshot equal to its weight; any other perceptron
\* keeps the snapshot it had and its buckets in every table.
C13_RehashBySumDetector ==
    [][RehashReturned =>
        \A layer \in 0..(net.n_layers - 2) :
            \A j \in 0..(net.dimensions[layer + 2] - 1) :
                IF Sum(get_weight(net, layer, j)) #
                        Sum(get_weight_original(net, layer, j))
                THEN get_weight_original(net', layer, j) =
                        get_weight(net', layer, j)
                ELSE /\ get_weight_original(net', layer, j) =
                            get_weight_original(net, layer, j)
                     /\ \A t \in 0..(net.lsh_store[layer + 1].hash_tables.n_hash_tables - 1) :
                            IndexBucketsOf(net', layer, t, j) =
                                IndexBucketsOf(net, layer, t, j)]_vars

\* rehash returned after it refreshed the snapshot of one perceptron and
\* moved it to another bucket, the others keeping theirs
C13_Witness ==
    /\ nn_last.op = "rehash"
    /\ nn_last.ok
    /\ nn_last.changed
    /\ net.lsh_store # NetworkNew(nn_cfg).net.lsh_store
    /\ \E n \in DOMAIN net.pool.pool :
            net.pool.pool_backup[n] = NetworkNew(nn_cfg).net.pool.pool_backup[n]

\* the perceptrons of a network as (layer, position in w) pairs
Perceptrons(nw) ==
    UNION {{<<layer, n>> : n \in DOMAIN nw.w[layer + 1]} :
                layer \in 0..(nw.n_layers - 2)}

\* C14: after construction, for every layer i the list w_i holds d_{i+1}
\* pairwise distinct pids, each a key of lsh2pool_i and lsh2bias_i with
\* bias 0, the slots of all perceptrons are pairwise distinct, pool holds
\* one weight per perceptron and pool_backup equals pool.
C14_FullyPopulated ==
    (nn_last.op = "new" /\ nn_last.ok) =>
        /\ \A layer \in 0..(net.n_layers - 2) :
            LET w_i == net.w[layer + 1] IN
            /\ Len(w_i) = net.dimensions[layer + 2]
            /\ \A n, m \in DOMAIN w_i : n # m => w_i[n] # w_i[m]
            /\ \A n \in DOMAIN w_i :
                /\ w_i[n] \in DOMAIN net.lsh2pool[layer + 1]
                /\ w_i[n] \in DOMAIN net.lsh2bias[layer + 1]
                /\ net.lsh2bias[layer + 1][w_i[n]] = 0
        /\ \A p, q \in Perceptrons(net) :
                p # q => Slot(net, p[1], net.w[p[1] + 1][p[2]]) #
                         Slot(net, q[1], net.w[q[1] + 1][q[2]])
        /\ Len(net.pool.pool) = Cardinality(Perceptrons(net))
        /\ net.pool.pool_backup = net.pool.pool

\* backprop returned, called on neuron lists as forward left them
BackpropOfForward ==
    /\ nn_last.op = "backprop"
    /\ nn_last.ok
    /\ \A l \in DOMAIN nn_last.before : \A n \in DOMAIN nn_last.before[l] :
            nn_last.before[l][n].delta = 0

\* what the active neurons d of the list above l hand down to a neuron c
\* of list l: the sum of delta_d * W[l+1, d.j][c.j] * act'_{l+1}(d.z)
ChainedDelta(nw, neur, l, c) ==
    Sum([n \in DOMAIN neur[l + 1] |->
            neur[l + 1][n].delta
                * get_weight(nw, l, neur[l + 1][n].j)[c.j + 1]
                * Prime(nw.activations[l + 1], neur[l + 1][n].z)])

\* C15: after backprop every active neuron c of a layer below the output
\* layer holds the sum, over the active neurons d of the layer above, of
\* delta_d * W[l+1, d.j][c.j] * act'_{l+1}(d.z), for one hidden layer and
\* for more.
C15_BackpropChains ==
    BackpropOfForward =>
        \A l \in 1..(net.n_layers - 2) : \A n \in DOMAIN nn_neur[l] :
            nn_neur[l][n].delta = ChainedDelta(net, nn_neur, l, nn_neur[l][n])

\* the buckets of every table of every index of a network
AllBuckets(nw) ==
    [l \in DOMAIN nw.lsh_store |-> nw.lsh_store[l].hash_tables.hash_tables]

\* the slots of the perceptrons of a neuron list
SlotsOf(nw, neur) == {Slot(nw, neur[n].i, neur[n].j) : n \in DOMAIN neur}

\* C16: forward and backprop change no weight, bias, snapshot or bucket;
\* update_param changes only the weights and biases of the perceptrons of
\* its neuron list and no snapshot or bucket; rehash changes no weight of
\* pool and no bias.
C16_WritersOfTheState ==
    [][(nn_ops' # nn_ops /\ nn_last'.ok) =>
        /\ nn_last'.op \in {"forward", "backprop"} =>
            /\ net'.pool = net.pool
            /\ net'.lsh2bias = net.lsh2bias
            /\ AllBuckets(net') = AllBuckets(net)
        /\ nn_last'.op = "update_param" =>
            /\ net'.pool.pool_backup = net.pool.pool_backup
            /\ AllBuckets(net') = AllBuckets(net)
            /\ Len(net'.pool.pool) = Len(net.pool.pool)
            /\ \A k \in 0..(Len(net.pool.pool) - 1) :
                    k \notin SlotsOf(net, nn_last'.neur) =>
                        net'.pool.pool[k + 1] = net.pool.pool[k + 1]
            /\ \A l \in DOMAIN net.lsh2bias : \A j \in DOMAIN net.lsh2bias[l] :
                    (\A n \in DOMAIN nn_last'.neur :
                        ~(nn_last'.neur[n].i = l - 1 /\ nn_last'.neur[n].j = j))
                    => net'.lsh2bias[l][j] = net.lsh2bias[l][j]
        /\ nn_last'.op = "rehash" =>
            /\ net'.pool.pool = net.pool.pool
            /\ net'.lsh2bias = net.lsh2bias]_vars

\* update_param returned after a backprop and changed a weight and a bias
\* of its list, another perceptron keeping its own
C16_Witness ==
    /\ nn_last.op = "update_param"
    /\ nn_last.ok
    /\ net.pool.pool # net.pool.pool_backup
    /\ net.lsh2bias # NetworkNew(nn_cfg).net.lsh2bias
    /\ \E k \in DOMAIN net.pool.pool : k - 1 \notin SlotsOf(net, nn_last.neur)
    /\ \E l \in DOMAIN nn_neur : \E n \in DOMAIN nn_neur[l] :
            nn_neur[l][n].delta # 0

\* C17: pool and pool_backup have the same length after the freeze that
\* ends construction and in every state reached by update_param and rehash.
C17_ArenaLengths ==
    nn_state # "none" /\ nn_cfg.dimensions # <<>> =>
        Len(net.pool.pool) = Len(net.pool.pool_backup)

\* a rehash that refreshed a snapshot returned, after an update_param, on
\* an arena that holds weights
C17_Witness ==
    /\ nn_last.op = "rehash"
    /\ nn_last.ok
    /\ nn_last.changed
    /\ nn_updates > 0
    /\ Len(net.pool.pool) > 0
    /\ Len(net.pool.pool_backup) = Len(net.pool.pool)

\* C18: with retention of the originals, for every N >= 1 and after any
\* sequence of logical inserts the vector store holds one vector per
\* logical insert and idx_to_datapoint(id) returns the vector inserted
\* under that id.
C18_RetainedOriginals ==
    (st_pos = 0 /\ ~mt.only_index_storage) =>
        /\ Len(mt.vec_store) = n_inserts
        /\ \A i \in DOMAIN put_log :
                idx_to_datapoint(mt, put_log[i].id) =
                    [ok |-> TRUE, d |-> put_log[i].v]

\* C19: forward returns L-1 neuron lists and L-1 inputs, the first input
\* being x; the input built from the list of a non-last layer has the
\* length of that layer's output, the activation a of the active neuron
\* of pid j at component j, and 0 where no active neuron has the pid.
C19_InputOfNextLayer ==
    (nn_last.op = "forward" /\ nn_last.ok) =>
        /\ Len(nn_neur) = net.n_layers - 1
        /\ Len(nn_inputs) = net.n_layers - 1
        /\ nn_inputs[1] = nn_last.x
        /\ \A i \in 1..(Len(nn_neur) - 1) :
            LET input == nn_inputs[i + 1]
                d == net.dimensions[i + 1]
            IN  /\ Len(input) = d
                /\ \A j \in 0..(d - 1) :
                    /\ \A n \in DOMAIN nn_neur[i] :
                            nn_neur[i][n].j = j => input[j + 1] = nn_neur[i][n].a
                    /\ (\A n \in DOMAIN nn_neur[i] : nn_neur[i][n].j # j)
                            => input[j + 1] = 0

\* forward returned with a gated layer of which one perceptron only was
\* active, its pid not 0 and its activation not 0
C19_Witness ==
    /\ nn_last.op = "forward"
    /\ nn_last.ok
    /\ net.n_layers >= 3
    /\ Len(nn_neur[1]) = 1
    /\ nn_neur[1][1].j # 0
    /\ nn_neur[1][1].a # 0

\* C20: on the persistent backend an id assigned to a logical insert is
\* never assigned to another logical insert of the same store, also after
\* the store was opened again on a file that holds rows.
C20_SqlIdsNeverReused ==
    \A i, j \in DOMAIN put_log :
        put_log[i].id = put_log[j].id => put_log[i].k = put_log[j].k


\* the ids of bucket h of table t of MemoryTable m, empty when there is no
\* such bucket
IdsOf(m, t, h) ==
    IF h \in DOMAIN m.hash_tables[t] THEN m.hash_tables[t][h] ELSE {}

\* C21: delete(hash, d, t) of a vector d that was inserted under id p with
\* that hash in table t removes p from the bucket and leaves every other id
\* of every bucket in place, with equal vectors stored and with
\* only_index_storage too; when the hash has no bucket in table t and d is
\* in the vector store, delete returns NotFound and changes nothing.
C21_DeleteRemovesId ==
    del_last.op = "delete" =>
        LET b == del_last.before
            a == del_last.after
            t == del_last.t
            hash == del_last.hash
            d == del_last.d
        IN  /\ \A i \in 1..Len(put_log) :
                LET e == put_log[i] IN
                (/\ e.v = d
                 /\ e.t = t
                 /\ hash = hash_vec(t, MaxProjections, d)
                 /\ e.id \in IdsOf(b, t, hash))
                => /\ del_last.ok
                   /\ e.id \notin IdsOf(a, t, hash)
                   /\ \A t2 \in 0..(b.n_hash_tables - 1) :
                        /\ DOMAIN a.hash_tables[t2] = DOMAIN b.hash_tables[t2]
                        /\ \A h2 \in DOMAIN b.hash_tables[t2] :
                            a.hash_tables[t2][h2] \ {e.id}
                                = b.hash_tables[t2][h2] \ {e.id}
            /\ (/\ hash \notin DOMAIN b.hash_tables[t]
                /\ VecStorePosition(b.vec_store, d).some)
               => /\ ~del_last.ok
                  /\ del_last.err = "NotFound"
                  /\ a = b

\* the slots of an arena that are not on its free-list: the ones an
\* earlier add returned and that are still in use
SlotsInUse(arena) ==
    {n \in 0..(Len(arena.pool) - 1) :
        \A i \in 1..Len(arena.free) : arena.free[i] # n}

====
